---- MODULE Spec2Model ----
(***************************************************************************)
(* Registration and waitlist engine of Arena-Srsnov.                       *)
(*                                                                         *)
(* Two document shapes are modelled, as the repository has them:           *)
(*  - the legacy single-trainer event document, whose `attendees` and      *)
(*    `waitlist` arrays are written by pages/EventDetailPage.tsx with      *)
(*    arrayUnion / arrayRemove (specification Spec);                       *)
(*  - the multi-trainer event document, whose trainers.<id>.currentCount   *)
(*    is audited against the `registrations` collection on page load       *)
(*    (specification SpecMT; SpecPage is the page alone, with the deletion *)
(*    of the event; SpecView is what the pages render for each user;       *)
(*    SpecSlots is one page load next to the engine, SpecRemove the page   *)
(*    with its Remove buttons).                                            *)
(* SpecEdit adds the edit form of pages/CreateEventPage.tsx to Spec, and   *)
(* SpecAttendance is components/AttendanceCheckScreen.tsx.                 *)
(*                                                                         *)
(* The code that creates and cancels the multi-trainer registrations, the  *)
(* code generator and the check-in verification are not part of the        *)
(* sources at hand; they are modelled from the specification (SpecEngine,  *)
(* SpecCheckin).                                                           *)
(*                                                                         *)
(* Every updateDoc / getDoc is one atomic step at the store; the awaits    *)
(* between them are the points where other browser clients interleave.     *)
(***************************************************************************)
EXTENDS Integers, Sequences, FiniteSets, TLC

\* ------------------------------------------------------------------ bounds

\* Number of bookings (legacy attendees) ever created in a behaviour.
MaxBookings == 3

\* Number of registrations (multi-trainer shape) ever created in a behaviour.
MaxRegistrations == 3

\* Browser clients that have the event detail page open.
Clients == {"c1", "c2"}

\* event.capacity is `number | null` (types/index.ts:38); null means unlimited.
\* A capacity is a record so that null and a number are values of one kind.
NULL == [null |-> TRUE, value |-> 0]
Num(n) == [null |-> FALSE, value |-> n]

\* Capacities an event document is created with.
Capacities == {NULL, Num(1), Num(2)}

\* Text typed into a form field is a number: 0 is the empty string, k > 0 is
\* the text of participant k.  The k-th booking is made by a new participant,
\* participant k, so contacts (email, phone) of distinct bookings differ.
Empty == 0
BookingForms(k) ==
    { [name |-> 1, email |-> k, phone |-> 1],
      [name |-> Empty, email |-> k, phone |-> 1],
      [name |-> 1, email |-> Empty, phone |-> 1],
      [name |-> 1, email |-> k, phone |-> Empty] }
CancelForms ==
    { [email |-> e, phone |-> 1] : e \in 0..MaxBookings } \cup { [email |-> 1, phone |-> Empty] }

\* ------------------------------------------------------------------ helpers

Range(s) == {s[i] : i \in 1..Len(s)}

\* 1-based index of a in s: the "#index + 1" the waitlist is rendered with.
Pos(s, a) == CHOOSE i \in 1..Len(s) : s[i] = a

\* types/index.ts Attendee; id stands for `${Date.now()}-${random}` and grows
\* in the order the store receives the bookings.
NoAtt == [id |-> 0, name |-> Empty, email |-> Empty, phone |-> Empty]

\* Firestore arrayUnion: appends the element unless an equal one is present.
\* arrayUnionPrepend is the faulty variant that inserts at the front,
\* arrayUnionAppend the one that appends without looking for an equal element.
arrayUnionAppend(arr, a) == Append(arr, a)
arrayUnionPrepend(arr, a) == IF a \in Range(arr) THEN arr ELSE <<a>> \o arr
arrayUnion(arr, a) == IF a \in Range(arr) THEN arr ELSE Append(arr, a)

\* Firestore arrayRemove: removes every element deeply equal to a.
\* arrayRemoveTruncate is the faulty variant that also drops what follows a.
arrayRemoveTruncate(arr, a) == IF a \in Range(arr) THEN SubSeq(arr, 1, Pos(arr, a) - 1) ELSE arr
arrayRemove(arr, a) == SelectSeq(arr, LAMBDA x : x # a)

\* EventDetailPage.tsx:80  event.capacity !== null && confirmedCount >= event.capacity
\* isFullNoNullTest is the faulty variant without the null test (JavaScript
\* then compares with null as 0).
isFullNoNullTest(cap, confirmedCount) == confirmedCount >= cap.value
isFull(cap, confirmedCount) == cap # NULL /\ confirmedCount >= cap.value

\* EventDetailPage.tsx:178-179  const firstWaitlisted = event.waitlist[0]
\* lastWaitlisted is the faulty variant that takes the newest entry.
lastWaitlisted(ev) == ev.waitlist[Len(ev.waitlist)]
firstWaitlisted(ev) == ev.waitlist[1]

\* EventDetailPage.tsx:148  [...attendees, ...waitlist].find(a => email && phone match)
Matches(ev, form) ==
    SelectSeq(ev.attendees \o ev.waitlist,
              LAMBDA a : a.email = form.email /\ a.phone = form.phone)

\* ------------------------------------------------------------------ state

VARIABLES
    capacity,    \* events/{eventId}.capacity
    attendees,   \* events/{eventId}.attendees  (sequence of Attendee)
    waitlist,    \* events/{eventId}.waitlist   (sequence of Attendee)
    event,       \* event[c]: the component state `event` of client c (a snapshot)
    pc,          \* pc[c]: where client c's running handler is suspended
    job,         \* job[c]: locals of the running handler, and the store it wrote on
    toast,       \* toast[c]: the last toast shown to client c: its title is
                 \* common.error (destructive) or a success title
    nextId,      \* next Attendee id
    cancelled,   \* history: attendees a cancellation has removed from the store
    \* multi-trainer shape
    trainers,       \* events/{eventId}.trainers: trainerId -> TrainerSlot
    registrations,  \* the registrations collection; the index is the document id
    page,           \* page[c]: state of client c's multi-trainer detail page
    fixes,          \* auto-fix updateDoc calls that are sent and not yet applied
    eventExists,    \* the document events/{eventId} exists
    codes,          \* codes[i]: uniqueCode of registrations/{i} and who issued it
    checkin,        \* the last check-in verification and its result
    \* what the detail pages show
    eventTrainerIds,  \* Object.keys(event.trainers): users that joined the event
    view,             \* the participant rows last rendered, and for whom
    \* attendance check
    attendanceValidations,  \* events/{eventId}.attendanceValidations
    screen,                 \* screen[c]: state of client c's AttendanceCheckScreen
    now                     \* the clock that stamps validatedAt

varsLegacy == <<capacity, attendees, waitlist, event, pc, job, toast, nextId, cancelled>>
varsCodes == <<codes, checkin>>
varsView == <<eventTrainerIds, view>>
varsAttendance == <<attendanceValidations, screen, now>>
varsMT == <<trainers, registrations, page, fixes, eventExists, codes, checkin>>
vars == <<capacity, attendees, waitlist, event, pc, job, toast, nextId, cancelled,
          trainers, registrations, page, fixes, eventExists, codes, checkin,
          eventTrainerIds, view, attendanceValidations, screen, now>>

NoEvent == [loaded |-> FALSE, capacity |-> NULL, attendees |-> <<>>, waitlist |-> <<>>]
Snapshot == [loaded |-> TRUE, capacity |-> capacity, attendees |-> attendees, waitlist |-> waitlist]

NoJob == [kind |-> "none", att |-> NoAtt, inWaitlist |-> FALSE, first |-> NoAtt,
          preAtt |-> <<>>, preWait |-> <<>>]

InitLegacy ==
    /\ capacity \in Capacities
    /\ attendees = <<>>
    /\ waitlist = <<>>
    /\ event = [c \in Clients |-> NoEvent]
    /\ pc = [c \in Clients |-> "idle"]
    /\ job = [c \in Clients |-> NoJob]
    /\ toast = [c \in Clients |-> "none"]
    /\ nextId = 1
    /\ cancelled = {}

\* ------------------------------------------------------------------ page load

\* EventDetailPage.tsx:30-56  useEffect fetchEvent (mount or reload of the page)
fetchEvent(c) ==
    /\ pc[c] = "idle"
    /\ event' = [event EXCEPT ![c] = Snapshot]
    /\ toast' = [toast EXCEPT ![c] = "none"]
    /\ UNCHANGED <<capacity, attendees, waitlist, pc, job, nextId, cancelled>>
    /\ UNCHANGED <<varsMT, varsView, varsAttendance>>

\* ------------------------------------------------------------------ handleBooking

\* EventDetailPage.tsx:60  !bookingData.name || !bookingData.email || !bookingData.phone
\* hasEmptyName is the faulty variant that tests the name only.
hasEmptyName(form) == form.name = Empty
hasEmptyField(form) == form.name = Empty \/ form.email = Empty \/ form.phone = Empty

\* EventDetailPage.tsx:60-67  a field is empty: toast and return
handleBooking_invalid(c, form) ==
    /\ pc[c] = "idle"
    /\ event[c].loaded
    /\ hasEmptyField(form)
    /\ toast' = [toast EXCEPT ![c] = "error"]
    /\ UNCHANGED <<capacity, attendees, waitlist, event, pc, job, nextId, cancelled>>
    /\ UNCHANGED <<varsMT, varsView, varsAttendance>>

\* EventDetailPage.tsx:69-104  build newAttendee, decide on the snapshot, updateDoc
handleBooking_updateDoc(c, form) ==
    /\ pc[c] = "idle"
    /\ event[c].loaded
    /\ ~hasEmptyField(form)
    /\ nextId <= MaxBookings
    /\ LET newAttendee == [id |-> nextId, name |-> form.name,
                           email |-> form.email, phone |-> form.phone]
           confirmedCount == Len(event[c].attendees)
           full == isFull(event[c].capacity, confirmedCount)
       IN  /\ IF full
              THEN /\ waitlist' = arrayUnion(waitlist, newAttendee)
                   /\ attendees' = attendees
                   /\ toast' = [toast EXCEPT ![c] = "success"]
              ELSE /\ attendees' = arrayUnion(attendees, newAttendee)
                   /\ waitlist' = waitlist
                   /\ toast' = [toast EXCEPT ![c] = "success"]
           /\ job' = [job EXCEPT ![c] = [kind |-> "book", att |-> newAttendee,
                                         inWaitlist |-> full, first |-> NoAtt,
                                         preAtt |-> attendees, preWait |-> waitlist]]
    /\ pc' = [pc EXCEPT ![c] = "book_refresh"]
    /\ nextId' = nextId + 1
    /\ UNCHANGED <<capacity, event, cancelled>>
    /\ UNCHANGED <<varsMT, varsView, varsAttendance>>

\* EventDetailPage.tsx:106-121  close the dialog and re-read the event
handleBooking_refresh(c) ==
    /\ pc[c] = "book_refresh"
    /\ event' = [event EXCEPT ![c] = Snapshot]
    /\ pc' = [pc EXCEPT ![c] = "idle"]
    /\ job' = [job EXCEPT ![c] = NoJob]
    /\ UNCHANGED <<capacity, attendees, waitlist, toast, nextId, cancelled>>
    /\ UNCHANGED <<varsMT, varsView, varsAttendance>>

\* ------------------------------------------------------------------ handleCancelBooking

\* EventDetailPage.tsx:136-143  a field is empty: toast and return
handleCancelBooking_invalid(c, form) ==
    /\ pc[c] = "idle"
    /\ event[c].loaded
    /\ form.email = Empty \/ form.phone = Empty
    /\ toast' = [toast EXCEPT ![c] = "error"]
    /\ UNCHANGED <<capacity, attendees, waitlist, event, pc, job, nextId, cancelled>>
    /\ UNCHANGED <<varsMT, varsView, varsAttendance>>

\* EventDetailPage.tsx:147-160  no attendee of the snapshot matches: error toast
handleCancelBooking_notFound(c, form) ==
    /\ pc[c] = "idle"
    /\ event[c].loaded
    /\ form.email # Empty /\ form.phone # Empty
    /\ Matches(event[c], form) = <<>>
    /\ toast' = [toast EXCEPT ![c] = "error"]
    /\ UNCHANGED <<capacity, attendees, waitlist, event, pc, job, nextId, cancelled>>
    /\ UNCHANGED <<varsMT, varsView, varsAttendance>>

\* EventDetailPage.tsx:147-175  find the attendee in the snapshot and remove it
\* from the array the snapshot has it in
handleCancelBooking_updateDoc(c, form) ==
    /\ pc[c] = "idle"
    /\ event[c].loaded
    /\ form.email # Empty /\ form.phone # Empty
    /\ Matches(event[c], form) # <<>>
    /\ LET attendee == Head(Matches(event[c], form))
           isInWaitlist == \E a \in Range(event[c].waitlist) : a.id = attendee.id
           promote == ~isInWaitlist /\ Len(event[c].waitlist) > 0
           first == IF promote THEN firstWaitlisted(event[c]) ELSE NoAtt
       IN  /\ IF isInWaitlist
              THEN /\ waitlist' = arrayRemove(waitlist, attendee)
                   /\ attendees' = attendees
                   /\ cancelled' = IF attendee \in Range(waitlist)
                                   THEN cancelled \cup {attendee} ELSE cancelled
              ELSE /\ attendees' = arrayRemove(attendees, attendee)
                   /\ waitlist' = waitlist
                   /\ cancelled' = IF attendee \in Range(attendees)
                                   THEN cancelled \cup {attendee} ELSE cancelled
           /\ job' = [job EXCEPT ![c] = [kind |-> "cancel", att |-> attendee,
                                         inWaitlist |-> isInWaitlist,
                                         first |-> first,
                                         preAtt |-> attendees, preWait |-> waitlist]]
           /\ IF promote
              THEN /\ pc' = [pc EXCEPT ![c] = "cancel_promote"]
                   /\ toast' = toast
              ELSE /\ pc' = [pc EXCEPT ![c] = "cancel_refresh"]
                   /\ toast' = [toast EXCEPT ![c] = "success"]
    /\ UNCHANGED <<capacity, event, nextId>>
    /\ UNCHANGED <<varsMT, varsView, varsAttendance>>

\* EventDetailPage.tsx:177-190  second updateDoc: move the snapshot's waitlist[0]
handleCancelBooking_promote(c) ==
    /\ pc[c] = "cancel_promote"
    /\ waitlist' = arrayRemove(waitlist, job[c].first)
    /\ attendees' = arrayUnion(attendees, job[c].first)
    /\ pc' = [pc EXCEPT ![c] = "cancel_refresh"]
    /\ toast' = [toast EXCEPT ![c] = "success"]
    /\ UNCHANGED <<capacity, event, job, nextId, cancelled>>
    /\ UNCHANGED <<varsMT, varsView, varsAttendance>>

\* EventDetailPage.tsx:192-207  close the dialog and re-read the event
handleCancelBooking_refresh(c) ==
    /\ pc[c] = "cancel_refresh"
    /\ event' = [event EXCEPT ![c] = Snapshot]
    /\ pc' = [pc EXCEPT ![c] = "idle"]
    /\ job' = [job EXCEPT ![c] = NoJob]
    /\ UNCHANGED <<capacity, attendees, waitlist, toast, nextId, cancelled>>
    /\ UNCHANGED <<varsMT, varsView, varsAttendance>>

\* ------------------------------------------------------------------ CreateEventPage (edit)

\* CreateEventPage.tsx:23-34  formData of the edit form: the required fields
\* (title, date, time) are all filled or not, and the capacity entered
\* (null when isUnlimited is ticked).
EditForms == [filled : BOOLEAN, capacity : Capacities]

\* CreateEventPage.tsx:78-115  handleSubmit with an eventId: a form with a
\* required field missing gets an error toast and is not sent; otherwise one
\* updateDoc(events/eventId, eventData) where eventData holds the form's fields
\* and capacity together with attendees: [] and waitlist: [].
handleSubmit(form) ==
    /\ IF form.filled
       THEN /\ capacity' = form.capacity
            /\ attendees' = <<>>
            /\ waitlist' = <<>>
       ELSE UNCHANGED <<capacity, attendees, waitlist>>
    /\ UNCHANGED <<event, pc, job, toast, nextId, cancelled>>
    /\ UNCHANGED <<varsMT, varsView, varsAttendance>>

\* ------------------------------------------------------------------ multi-trainer shape

\* types/index.ts:18  capacity: number // -1 = unlimited
Unlimited == -1

Trainers == {"t1", "t2"}
Viewers == {"c1"}

\* TrainerSelectionModal.tsx:138, CalendarPage.tsx:159-162
slotIsFull(slot) == slot.capacity # Unlimited /\ slot.currentCount >= slot.capacity

\* registrations[i] is the document registrations/{i}; ids are never reused, and
\* the status "absent" stands for a document that deleteDoc has removed.
\* Ids of the registrations of trainer t with status st.
RegsOf(t, st) ==
    {i \in 1..Len(registrations) :
        registrations[i].trainerId = t /\ registrations[i].status = st}

\* part_001:398-411  query: eventId == ... and status in ['confirmed', 'waitlist']
ActiveRegistrations ==
    {[id |-> i, trainerId |-> registrations[i].trainerId,
      status |-> registrations[i].status, position |-> registrations[i].position] :
        i \in {j \in 1..Len(registrations) :
                 registrations[j].status \in {"confirmed", "waitlist"}}}

\* part_001:418  regs.filter(r => r.trainerId === trainerId && r.status === 'confirmed').length
\* actualCountAnyStatus is the faulty variant that forgets the status test.
actualCountAnyStatus(regs, t) ==
    Cardinality({r \in regs : r.trainerId = t})
actualCount(regs, t) ==
    Cardinality({r \in regs : r.trainerId = t /\ r.status = "confirmed"})

\* part_001:339-349  page state; fixed holds the trainers a "Fixed count" line
\* was logged for, todo the registrations handleDeleteEvent has still to delete.
NoCheckin == [payload |-> 0, result |-> "none"]

NoPage == [pc |-> "mount", trainersObj |-> [t \in Trainers |-> 0], registrations |-> {},
           fixed |-> {}, todo |-> {}]

InitMT ==
    /\ trainers = [t \in Trainers |->
                     [capacity |-> IF t = "t1" THEN 1 ELSE Unlimited, currentCount |-> 0]]
    /\ registrations = <<>>
    /\ page = [c \in Viewers |-> NoPage]
    /\ fixes = {}
    /\ eventExists = TRUE
    /\ codes = <<>>
    /\ checkin = NoCheckin

\* ---- Code Generator (spec 4.2); the generator is not under src/

\* Size of the code space the generator draws from ("000-000" .. "999-999" in
\* the repository) and number of draws before CodeSpaceExhausted.
CodeSpaceSize == 2
MaxAttempts == 2

\* types/index.ts:87  uniqueCode: string; NoCode is the empty string.
NoCode == 0
CodeSpace == 1..CodeSpaceSize
Draws == [1..MaxAttempts -> CodeSpace]
NoIssued == [uniqueCode |-> NoCode, by |-> "none"]

\* Codes of the registrations that are confirmed in regs, except registration id.
activeCodes(regs, id) ==
    {codes[i].uniqueCode : i \in {j \in 1..Len(regs) : j # id /\ regs[j].status = "confirmed"}}

\* Spec 4.2 generate(existingCodesProbe): the first candidate that is not an
\* active code, or NoCode (CodeSpaceExhausted) when every attempt collides.
\* generateNoProbe is the faulty variant that never asks the probe,
\* generateKeepLast the one that returns its last candidate when all collide.
generateNoProbe(existing, draws) == draws[1]
generateKeepLast(existing, draws) ==
    LET free == {k \in 1..MaxAttempts : draws[k] \notin existing}
    IN  IF free = {} THEN draws[MaxAttempts]
        ELSE draws[CHOOSE k \in free : \A m \in free : k <= m]
generate(existing, draws) ==
    LET free == {k \in 1..MaxAttempts : draws[k] \notin existing}
    IN  IF free = {} THEN NoCode
        ELSE draws[CHOOSE k \in free : \A m \in free : k <= m]

\* Spec 4.2 payload: a reversible encoding of (registrationId, code).
PayloadBase == CodeSpaceSize + 1
encode(id, code) == id * PayloadBase + code
decode(payload) == [id |-> payload \div PayloadBase, code |-> payload % PayloadBase]

\* Payloads a scanner can present: issued ones, and ones that decode to an id
\* or a code no registration has.
Payloads == 0..((MaxRegistrations + 1) * PayloadBase + CodeSpaceSize)

\* ---- Registration Engine (spec 4.3, 4.4); components/RegistrationForm and
\* lib/waitlistUtils are not under src/

\* Spec 4.3 Register: one transaction that reads the slot, creates the
\* registration, generates the code of a confirmed one and applies the count.
\* CodeSpaceExhausted fails the transaction.
Register(t, draws) ==
    /\ eventExists
    /\ Len(registrations) < MaxRegistrations
    /\ LET code == generate(activeCodes(registrations, 0), draws)
       IN  IF slotIsFull(trainers[t])
           THEN /\ registrations' = Append(registrations,
                      [trainerId |-> t, status |-> "waitlist",
                       position |-> Cardinality(RegsOf(t, "waitlist")) + 1])
                /\ codes' = Append(codes, NoIssued)
                /\ trainers' = trainers
           ELSE IF code = NoCode
           THEN UNCHANGED <<registrations, codes, trainers>>
           ELSE /\ registrations' = Append(registrations,
                      [trainerId |-> t, status |-> "confirmed", position |-> 0])
                /\ codes' = Append(codes, [uniqueCode |-> code, by |-> "register"])
                /\ trainers' = [trainers EXCEPT ![t].currentCount = @ + 1]
    /\ UNCHANGED <<page, fixes, eventExists, checkin>>
    /\ UNCHANGED <<varsLegacy, varsView, varsAttendance>>

\* Spec 4.4: the waitlisted registration of slot t with the smallest position.
headOfWaitlist(t) ==
    CHOOSE i \in RegsOf(t, "waitlist") : \A j \in RegsOf(t, "waitlist") :
        registrations[i].position <= registrations[j].position

\* cancelRegistration_keepPosition is the faulty variant whose promotion
\* confirms the head of the waitlist without removing its position.
cancelRegistration_keepPosition(id) ==
    LET r == registrations[id]
        t == r.trainerId
    IN  [i \in 1..Len(registrations) |->
            IF i = id THEN [registrations[i] EXCEPT !.status = "cancelled", !.position = 0]
            ELSE IF registrations[i].trainerId # t \/ registrations[i].status # "waitlist"
                 THEN registrations[i]
            ELSE IF r.status = "waitlist"
                 THEN IF registrations[i].position > r.position
                      THEN [registrations[i] EXCEPT !.position = @ - 1]
                      ELSE registrations[i]
            ELSE IF r.status = "confirmed"
                 THEN IF i = headOfWaitlist(t)
                      THEN [registrations[i] EXCEPT !.status = "confirmed"]
                      ELSE [registrations[i] EXCEPT !.position = @ - 1]
            ELSE registrations[i]]

\* Spec 4.3 Cancel and 4.4 Promoter (lib/waitlistUtils cancelRegistration is not
\* under src/): the registrations after cancelling id in one transaction.
cancelRegistration(id) ==
    LET r == registrations[id]
        t == r.trainerId
    IN  [i \in 1..Len(registrations) |->
            IF i = id THEN [registrations[i] EXCEPT !.status = "cancelled", !.position = 0]
            ELSE IF registrations[i].trainerId # t \/ registrations[i].status # "waitlist"
                 THEN registrations[i]
            ELSE IF r.status = "waitlist"
                 THEN IF registrations[i].position > r.position
                      THEN [registrations[i] EXCEPT !.position = @ - 1]
                      ELSE registrations[i]
            ELSE IF r.status = "confirmed"
                 THEN IF i = headOfWaitlist(t)
                      THEN [registrations[i] EXCEPT !.status = "confirmed", !.position = 0]
                      ELSE [registrations[i] EXCEPT !.position = @ - 1]
            ELSE registrations[i]]

\* Spec 4.3 Cancel: the count goes down by one for a confirmed registration and
\* up again by one when the Promoter fills the spot, which also generates the
\* code of the promoted registration; a count that would become negative is an
\* InvariantViolation and CodeSpaceExhausted an error: both abort the
\* transaction (spec 4.1, 6).  A registration that does not exist is NotFound.
CancelAborts(id, draws) ==
    LET r == registrations[id]
        t == r.trainerId
        promoted == r.status = "confirmed" /\ RegsOf(t, "waitlist") # {}
        code == generate(activeCodes(registrations, id), draws)
    IN  \/ r.status = "confirmed" /\ trainers[t].currentCount = 0
        \/ r.status = "absent"
        \/ promoted /\ code = NoCode

\* The transaction of cancelRegistration(id) on the store.
CancelTransaction(id, draws) ==
    /\ eventExists
    /\ id \in 1..Len(registrations)
    /\ LET r == registrations[id]
           t == r.trainerId
           promoted == r.status = "confirmed" /\ RegsOf(t, "waitlist") # {}
           code == generate(activeCodes(registrations, id), draws)
       IN  IF CancelAborts(id, draws)
           THEN UNCHANGED <<registrations, trainers, codes>>
           ELSE /\ registrations' = cancelRegistration(id)
                /\ trainers' = IF r.status = "confirmed" /\ ~promoted
                               THEN [trainers EXCEPT ![t].currentCount = @ - 1]
                               ELSE trainers
                /\ codes' = IF promoted
                            THEN [codes EXCEPT ![headOfWaitlist(t)] =
                                     [uniqueCode |-> code, by |-> "promoter"]]
                            ELSE codes

\* Spec 4.3 Cancel(registrationId), requested by the participant.
Cancel(id, draws) ==
    /\ CancelTransaction(id, draws)
    /\ UNCHANGED <<page, fixes, eventExists, checkin>>
    /\ UNCHANGED <<varsLegacy, varsView, varsAttendance>>

\* Spec 5 verifyCheckin(payload) -> Registration | NotFound | Forged: the payload
\* is decoded and cross-checked with the stored registration.
\* checkinResultNoStatus is the faulty variant that trusts the decoded code.
checkinResultNoStatus(payload) ==
    LET p == decode(payload)
    IN  IF p.id \notin 1..Len(registrations) THEN "Forged"
        ELSE IF p.code = NoCode \/ codes[p.id].uniqueCode # p.code THEN "Forged"
        ELSE "Registration"
checkinResult(payload) ==
    LET p == decode(payload)
    IN  IF p.id \notin 1..Len(registrations) THEN "Forged"
        ELSE IF registrations[p.id].status = "absent" THEN "Forged"
        ELSE IF p.code = NoCode \/ codes[p.id].uniqueCode # p.code THEN "Forged"
        ELSE IF registrations[p.id].status = "cancelled" THEN "NotFound"
        ELSE IF registrations[p.id].status # "confirmed" THEN "Forged"
        ELSE "Registration"

verifyCheckin(payload) ==
    /\ checkin' = [payload |-> payload, result |-> checkinResult(payload)]
    /\ UNCHANGED <<trainers, registrations, page, fixes, eventExists, codes>>
    /\ UNCHANGED <<varsLegacy, varsView, varsAttendance>>

\* part_001:357-396  getDoc(events/eventId); currentCount: trainerSlot.currentCount || 0;
\* when the document does not exist nothing is loaded and the page shows an error
fetchEventAndRegistrations_getDoc(c) ==
    /\ page[c].pc = "mount"
    /\ page' = IF eventExists
               THEN [page EXCEPT ![c].pc = "event_read",
                       ![c].trainersObj = [t \in Trainers |-> trainers[t].currentCount]]
               ELSE [page EXCEPT ![c].pc = "missing"]
    /\ UNCHANGED <<trainers, registrations, fixes, eventExists>>
    /\ UNCHANGED varsCodes
    /\ UNCHANGED <<varsLegacy, varsView, varsAttendance>>

\* part_001:398-431  getDocs(active registrations), setRegistrations, and for each
\* trainer whose currentCount differs from the confirmed registrations just read,
\* send updateDoc({trainers.<id>.currentCount: actualCount}) without awaiting it
fetchEventAndRegistrations_getDocs(c) ==
    /\ page[c].pc = "event_read"
    /\ LET regs == ActiveRegistrations
       IN  /\ page' = [page EXCEPT ![c].pc = "loaded", ![c].registrations = regs]
           /\ fixes' = fixes \cup
                 {[client |-> c, trainerId |-> t, actualCount |-> actualCount(regs, t),
                   live |-> TRUE] :
                     t \in {u \in Trainers :
                              page[c].trainersObj[u] # actualCount(regs, u)}}
    /\ UNCHANGED <<trainers, registrations, eventExists>>
    /\ UNCHANGED varsCodes
    /\ UNCHANGED <<varsLegacy, varsView, varsAttendance>>

\* part_001:422-428  the auto-fix updateDoc is applied by the store; its .then
\* logs the fix and sets trainersObj[trainerId].currentCount on the page that
\* sent it.  updateDoc of a document that does not exist is rejected (.catch).
\* autoFix_wholeMap is the faulty variant that writes the page's whole trainers
\* object, updateDoc({trainers: trainersObj}), instead of the one field.
autoFix_wholeMap(f) ==
    /\ f \in fixes
    /\ fixes' = fixes \ {f}
    /\ IF eventExists
       THEN /\ trainers' = [u \in Trainers |->
                              [trainers[u] EXCEPT !.currentCount =
                                  IF u = f.trainerId THEN f.actualCount
                                  ELSE page[f.client].trainersObj[u]]]
            /\ page' = IF f.live
                       THEN [page EXCEPT ![f.client].trainersObj[f.trainerId] = f.actualCount,
                                         ![f.client].fixed = @ \cup {f.trainerId}]
                       ELSE page
       ELSE UNCHANGED <<trainers, page>>
    /\ UNCHANGED <<registrations, eventExists>>
    /\ UNCHANGED varsCodes
    /\ UNCHANGED <<varsLegacy, varsView, varsAttendance>>
autoFix_updateDoc(f) ==
    /\ f \in fixes
    /\ fixes' = fixes \ {f}
    /\ IF eventExists
       THEN /\ trainers' = [trainers EXCEPT ![f.trainerId].currentCount = f.actualCount]
            /\ page' = IF f.live
                       THEN [page EXCEPT ![f.client].trainersObj[f.trainerId] = f.actualCount,
                                         ![f.client].fixed = @ \cup {f.trainerId}]
                       ELSE page
       ELSE UNCHANGED <<trainers, page>>
    /\ UNCHANGED <<registrations, eventExists>>
    /\ UNCHANGED varsCodes
    /\ UNCHANGED <<varsLegacy, varsView, varsAttendance>>

\* The page is left or reloaded: its state is dropped, the updateDoc calls it
\* has sent stay on their way to the store.
reloadPage(c) ==
    /\ page[c].pc \in {"loaded", "missing", "gone"}
    /\ page' = [page EXCEPT ![c] = NoPage]
    /\ fixes' = {[f EXCEPT !.live = (f.live /\ f.client # c)] : f \in fixes}
    /\ UNCHANGED <<trainers, registrations, eventExists>>
    /\ UNCHANGED varsCodes
    /\ UNCHANGED <<varsLegacy, varsView, varsAttendance>>

\* part_001:476-482  handleDeleteEvent: deleteDoc(events/eventId) comes first
handleDeleteEvent_deleteDoc(c) ==
    /\ page[c].pc = "loaded"
    /\ eventExists' = FALSE
    /\ page' = [page EXCEPT ![c].pc = "deleting",
                            ![c].todo = {r.id : r \in page[c].registrations}]
    /\ UNCHANGED <<trainers, registrations, fixes>>
    /\ UNCHANGED varsCodes
    /\ UNCHANGED <<varsLegacy, varsView, varsAttendance>>

\* part_001:484-488  for (const reg of registrations) await deleteDoc(registrations/reg.id):
\* the registrations are those of the page's state, one deleteDoc per step
handleDeleteEvent_deleteRegistration(c) ==
    /\ page[c].pc = "deleting"
    /\ page[c].todo # {}
    /\ LET id == CHOOSE i \in page[c].todo : \A j \in page[c].todo : i <= j
       IN  /\ registrations' = [registrations EXCEPT ![id].status = "absent",
                                                     ![id].position = 0]
           /\ page' = [page EXCEPT ![c].todo = @ \ {id}]
    /\ UNCHANGED <<trainers, fixes, eventExists>>
    /\ UNCHANGED varsCodes
    /\ UNCHANGED <<varsLegacy, varsView, varsAttendance>>

\* part_001:490-496  success toast and navigate('/calendar')
handleDeleteEvent_navigate(c) ==
    /\ page[c].pc = "deleting"
    /\ page[c].todo = {}
    /\ page' = [page EXCEPT ![c].pc = "gone"]
    /\ UNCHANGED <<trainers, registrations, fixes, eventExists>>
    /\ UNCHANGED varsCodes
    /\ UNCHANGED <<varsLegacy, varsView, varsAttendance>>

\* ------------------------------------------------------------------ who sees what

\* Users of the application: nobody signed in (userData is null), an assistant
\* (CreateAssistantModal.tsx:61), trainers and an admin.  t1 and t2 are the
\* trainers whose slots the event has; t3 and ad1 can join it.
Anonymous == "anon"
Users == {Anonymous, "a1", "t1", "t2", "t3", "ad1"}

role(u) ==
    CASE u = Anonymous -> "none"
      [] u = "a1" -> "assistant"
      [] u = "ad1" -> "admin"
      [] OTHER -> "trainer"

\* part_000:86-87 (AuthContext)
\* isTrainerSignedIn is the faulty variant that only tests that a user is signed in.
isTrainerSignedIn(u) == role(u) # "none"
isTrainer(u) == role(u) = "trainer" \/ role(u) = "admin"

\* part_001:627  user && event.trainers && Object.keys(event.trainers).includes(user.uid)
isEventTrainer(u) == u # Anonymous /\ u \in eventTrainerIds

\* handleRemoveUser_deleteDoc is the faulty variant that deletes the
\* registration document instead of cancelling the registration.
handleRemoveUser_deleteDoc(c, u, id, draws) ==
    /\ page[c].pc = "loaded"
    /\ isEventTrainer(u) \/ isTrainer(u)
    /\ id \in {r.id : r \in page[c].registrations}
    /\ eventExists
    /\ registrations' = [registrations EXCEPT ![id].status = "absent", ![id].position = 0]
    /\ page' = [page EXCEPT ![c].pc = "remove_getDoc"]
    /\ UNCHANGED <<trainers, codes, fixes, eventExists, checkin>>
    /\ UNCHANGED <<varsLegacy, varsView, varsAttendance>>

\* part_001:510-520, 766-800, 902-920  handleRemoveUser: the Remove buttons are
\* rendered for an event trainer or a trainer, on the rows of the registrations
\* the page has loaded; the handler awaits cancelRegistration(selectedRegistration.id).
\* When the call throws, the catch shows an error and nothing is refreshed.
handleRemoveUser_cancelRegistration(c, u, id, draws) ==
    /\ page[c].pc = "loaded"
    /\ isEventTrainer(u) \/ isTrainer(u)
    /\ id \in {r.id : r \in page[c].registrations}
    /\ CancelTransaction(id, draws)
    /\ page' = IF CancelAborts(id, draws)
               THEN page
               ELSE [page EXCEPT ![c].pc = "remove_getDoc"]
    /\ UNCHANGED <<fixes, eventExists, checkin>>
    /\ UNCHANGED <<varsLegacy, varsView, varsAttendance>>

\* part_001:521-560  handleRemoveUser re-reads the event document: setEvent when it exists
handleRemoveUser_getDoc(c) ==
    /\ page[c].pc = "remove_getDoc"
    /\ page' = IF eventExists
               THEN [page EXCEPT ![c].pc = "remove_getDocs",
                       ![c].trainersObj = [t \in Trainers |-> trainers[t].currentCount]]
               ELSE [page EXCEPT ![c].pc = "remove_getDocs"]
    /\ UNCHANGED <<trainers, registrations, fixes, eventExists>>
    /\ UNCHANGED varsCodes
    /\ UNCHANGED <<varsLegacy, varsView, varsAttendance>>

\* part_001:562-580  handleRemoveUser re-reads the active registrations and
\* closes the dialog; the counts are not validated here
handleRemoveUser_getDocs(c) ==
    /\ page[c].pc = "remove_getDocs"
    /\ page' = [page EXCEPT ![c].pc = "loaded", ![c].registrations = ActiveRegistrations]
    /\ UNCHANGED <<trainers, registrations, fixes, eventExists>>
    /\ UNCHANGED varsCodes
    /\ UNCHANGED <<varsLegacy, varsView, varsAttendance>>

NoView == [viewer |-> Anonymous, page |-> "none", rows |-> {}]

InitView ==
    /\ eventTrainerIds = Trainers
    /\ view = NoView

\* TrainerSelectionModal.tsx:28, 128-136  the Join Event button is offered to a
\* trainer or admin that has not joined; joining adds the user to event.trainers
joinEvent(u) ==
    /\ isTrainer(u)
    /\ ~isEventTrainer(u)
    /\ eventTrainerIds' = eventTrainerIds \cup {u}
    /\ UNCHANGED view
    /\ UNCHANGED <<varsLegacy, varsMT, varsAttendance>>

\* part_001:757-860  the rows of the confirmed participants and of the waitlist
\* of every trainer tab, with the fields each row shows to user u
renderEventDetail(u) ==
    /\ eventExists
    /\ LET full == isEventTrainer(u) \/ isTrainer(u)
           Row(r) ==
               [id |-> r.id, status |-> r.status,
                fields |-> IF r.status = "confirmed"
                           THEN {"name"} \cup (IF full THEN {"email", "phone", "uniqueCode"} ELSE {})
                           ELSE {"name", "position"} \cup (IF full THEN {"email", "phone"} ELSE {})]
       IN  view' = [viewer |-> u, page |-> "trainers", rows |-> {Row(r) : r \in ActiveRegistrations}]
    /\ UNCHANGED eventTrainerIds
    /\ UNCHANGED <<varsLegacy, varsMT, varsAttendance>>

\* EventDetailPage.tsx:304-372  the legacy page: a trainer sees attendees and
\* waitlist with contact data, everybody else the names of the attendees
renderLegacyEventDetail(u) ==
    /\ LET Rows(arr, status, fields) ==
               {[id |-> arr[i].id, status |-> status, fields |-> fields] : i \in 1..Len(arr)}
       IN  view' = [viewer |-> u, page |-> "legacy",
                    rows |-> IF isTrainer(u)
                             THEN Rows(attendees, "confirmed", {"name", "email", "phone"})
                                  \cup Rows(waitlist, "waitlist", {"name", "email", "phone", "position"})
                             ELSE Rows(attendees, "confirmed", {"name"})]
    /\ UNCHANGED eventTrainerIds
    /\ UNCHANGED <<varsLegacy, varsMT, varsAttendance>>

\* ------------------------------------------------------------------ attendance check

\* AttendanceCheckScreen.tsx:18-24  an AttendanceValidation: the trainer, the
\* user who validated (the client's userData.uid) and validatedAt.  now counts
\* the instants at which a validation is created, up to MaxStamps.
MaxStamps == 3

ValidationIds(vs) == {vs[i].trainerId : i \in 1..Len(vs)}

\* AttendanceCheckScreen.tsx:31-35  validatedTrainers, validations; job holds
\* what the running handler has computed before its await
NoScreen == [pc |-> "mount", validations |-> <<>>, validatedTrainers |-> {},
             job |-> [kind |-> "none", trainerId |-> "none", list |-> <<>>]]

InitAttendance ==
    /\ attendanceValidations = <<>>
    /\ screen = [c \in Clients |-> NoScreen]
    /\ now = 1

\* AttendanceCheckScreen.tsx:53-101  loadTrainersAndValidations: the approved
\* trainers, then getDoc(events/eventId): validations and the set of their trainerIds
loadTrainersAndValidations(c) ==
    /\ screen[c].pc = "mount"
    /\ screen' = [screen EXCEPT ![c].pc = "ready",
                                ![c].validations = attendanceValidations,
                                ![c].validatedTrainers = ValidationIds(attendanceValidations)]
    /\ UNCHANGED <<attendanceValidations, now>>
    /\ UNCHANGED <<varsLegacy, varsMT, varsView>>

\* AttendanceCheckScreen.tsx:103-142  handleToggleTrainerValidation up to its
\* await: a trainer in validatedTrainers has the entries of the other trainers
\* of the local list written as the whole array; any other trainer gets a new
\* validation (validatedAt: Timestamp.now()) added with arrayUnion
handleToggleTrainerValidation_updateDoc(c, t) ==
    /\ screen[c].pc = "ready"
    /\ IF t \in screen[c].validatedTrainers
       THEN LET updatedValidations ==
                    SelectSeq(screen[c].validations, LAMBDA v : v.trainerId # t)
            IN  /\ attendanceValidations' = updatedValidations
                /\ now' = now
                /\ screen' = [screen EXCEPT ![c].pc = "toggle_set",
                                ![c].job = [kind |-> "remove", trainerId |-> t,
                                            list |-> updatedValidations]]
       ELSE LET newValidation == [trainerId |-> t, validatedBy |-> c, validatedAt |-> now]
            IN  /\ now <= MaxStamps
                /\ attendanceValidations' = arrayUnion(attendanceValidations, newValidation)
                /\ now' = now + 1
                /\ screen' = [screen EXCEPT ![c].pc = "toggle_set",
                                ![c].job = [kind |-> "add", trainerId |-> t,
                                            list |-> <<newValidation>>]]
    /\ UNCHANGED <<varsLegacy, varsMT, varsView>>

\* AttendanceCheckScreen.tsx:120-124, 145-146  after the await: setValidations
\* and setValidatedTrainers
handleToggleTrainerValidation_setState(c) ==
    /\ screen[c].pc = "toggle_set"
    /\ screen' = [screen EXCEPT
          ![c].pc = "ready",
          ![c].job = NoScreen.job,
          ![c].validations = IF screen[c].job.kind = "remove"
                             THEN screen[c].job.list
                             ELSE screen[c].validations \o screen[c].job.list,
          ![c].validatedTrainers = IF screen[c].job.kind = "remove"
                                   THEN @ \ {screen[c].job.trainerId}
                                   ELSE @ \cup {screen[c].job.trainerId}]
    /\ UNCHANGED <<attendanceValidations, now>>
    /\ UNCHANGED <<varsLegacy, varsMT, varsView>>

\* The trainers of the screen's list that are not in validatedTrainers, in the
\* order of the list.
unvalidated(c) ==
    SelectSeq(<<"t1", "t2">>, LAMBDA t : t \notin screen[c].validatedTrainers)

\* AttendanceCheckScreen.tsx:166-190  handleMarkAllValidated up to its await:
\* nothing to validate is an info toast; otherwise the local list followed by
\* the new validations is written as the whole array
handleMarkAllValidated_updateDoc(c) ==
    /\ screen[c].pc = "ready"
    /\ LET newValidations ==
               [i \in 1..Len(unvalidated(c)) |->
                   [trainerId |-> unvalidated(c)[i], validatedBy |-> c, validatedAt |-> now]]
           allValidations == screen[c].validations \o newValidations
       IN  IF Len(newValidations) = 0
           THEN UNCHANGED <<attendanceValidations, screen, now>>
           ELSE /\ now <= MaxStamps
                /\ attendanceValidations' = allValidations
                /\ now' = now + 1
                /\ screen' = [screen EXCEPT ![c].pc = "markall_set",
                                ![c].job = [kind |-> "all", trainerId |-> "none",
                                            list |-> allValidations]]
    /\ UNCHANGED <<varsLegacy, varsMT, varsView>>

\* AttendanceCheckScreen.tsx:192-193  after the await
handleMarkAllValidated_setState(c) ==
    /\ screen[c].pc = "markall_set"
    /\ screen' = [screen EXCEPT ![c].pc = "ready",
                                ![c].job = NoScreen.job,
                                ![c].validations = screen[c].job.list,
                                ![c].validatedTrainers = ValidationIds(screen[c].job.list)]
    /\ UNCHANGED <<attendanceValidations, now>>
    /\ UNCHANGED <<varsLegacy, varsMT, varsView>>

\* AttendanceCheckScreen.tsx:15, 50-52  onClose; the screen loads again when it is opened
onClose(c) ==
    /\ screen[c].pc = "ready"
    /\ screen' = [screen EXCEPT ![c] = NoScreen]
    /\ UNCHANGED <<attendanceValidations, now>>
    /\ UNCHANGED <<varsLegacy, varsMT, varsView>>

\* ------------------------------------------------------------------ specifications

Init == InitLegacy /\ InitMT /\ InitView /\ InitAttendance

Next ==
    \/ \E c \in Clients : fetchEvent(c)
    \/ \E c \in Clients, form \in BookingForms(nextId) : handleBooking_invalid(c, form)
    \/ \E c \in Clients, form \in BookingForms(nextId) : handleBooking_updateDoc(c, form)
    \/ \E c \in Clients : handleBooking_refresh(c)
    \/ \E c \in Clients, form \in CancelForms : handleCancelBooking_invalid(c, form)
    \/ \E c \in Clients, form \in CancelForms : handleCancelBooking_notFound(c, form)
    \/ \E c \in Clients, form \in CancelForms : handleCancelBooking_updateDoc(c, form)
    \/ \E c \in Clients : handleCancelBooking_promote(c)
    \/ \E c \in Clients : handleCancelBooking_refresh(c)

\* The legacy event document and the clients that book and cancel on it.
Spec == Init /\ [][Next]_vars

\* The legacy event document with a trainer who edits the event while clients
\* book and cancel.
NextEdit ==
    \/ Next
    \/ \E form \in EditForms : handleSubmit(form)

SpecEdit == Init /\ [][NextEdit]_vars

InitSpecMT == Init /\ capacity = NULL

NextMT ==
    \/ \E t \in Trainers, draws \in Draws : Register(t, draws)
    \/ \E id \in 1..MaxRegistrations, draws \in Draws : Cancel(id, draws)
    \/ \E c \in Viewers : fetchEventAndRegistrations_getDoc(c)
    \/ \E c \in Viewers : fetchEventAndRegistrations_getDocs(c)
    \/ \E f \in fixes : autoFix_updateDoc(f)
    \/ \E c \in Viewers : reloadPage(c)

\* The multi-trainer event document, its registrations and the pages that load it.
SpecMT == InitSpecMT /\ [][NextMT]_vars

\* The multi-trainer detail page alone on a store that holds registrations and
\* slot counts of any value (a count may have been forced to a wrong value):
\* page load with its count validation, and deletion of the event.
MaxForcedCount == 2

\* Registrations the store can hold: slot t1 (capacity 1) has at most one
\* confirmed registration, only a bounded slot has a waitlist, and the
\* waitlist positions of a slot are 1..N in the order of creation.
RegistrationShapes == [trainerId : Trainers, status : {"confirmed", "waitlist", "cancelled"}]

StoredRegistrations ==
    LET Numbered(q) ==
            [i \in 1..Len(q) |->
                [trainerId |-> q[i].trainerId, status |-> q[i].status,
                 position |-> IF q[i].status = "waitlist"
                              THEN Cardinality({j \in 1..i : q[j] = q[i]})
                              ELSE 0]]
        Allowed(q) ==
            /\ \A t \in Trainers : trainers[t].capacity = Unlimited =>
                  ~\E i \in 1..Len(q) : q[i].trainerId = t /\ q[i].status = "waitlist"
            /\ \A t \in Trainers : trainers[t].capacity # Unlimited =>
                  Cardinality({i \in 1..Len(q) : q[i].trainerId = t /\ q[i].status = "confirmed"})
                      <= trainers[t].capacity
    IN  {Numbered(q) : q \in {r \in UNION {[1..n -> RegistrationShapes] : n \in 0..MaxRegistrations} :
                                   Allowed(r)}}

InitPage ==
    /\ InitLegacy /\ capacity = NULL
    /\ InitView
    /\ InitAttendance
    /\ trainers \in [Trainers -> [capacity : {1, Unlimited}, currentCount : 0..MaxForcedCount]]
    /\ trainers["t1"].capacity = 1 /\ trainers["t2"].capacity = Unlimited
    /\ registrations \in StoredRegistrations
    /\ page = [c \in Viewers |-> NoPage]
    /\ fixes = {}
    /\ eventExists = TRUE
    /\ codes = [i \in 1..Len(registrations) |-> NoIssued]
    /\ checkin = NoCheckin

NextPage ==
    \/ \E c \in Viewers : fetchEventAndRegistrations_getDoc(c)
    \/ \E c \in Viewers : fetchEventAndRegistrations_getDocs(c)
    \/ \E f \in fixes : autoFix_updateDoc(f)
    \/ \E c \in Viewers : reloadPage(c)
    \/ \E c \in Viewers : handleDeleteEvent_deleteDoc(c)
    \/ \E c \in Viewers : handleDeleteEvent_deleteRegistration(c)
    \/ \E c \in Viewers : handleDeleteEvent_navigate(c)

SpecPage == InitPage /\ [][NextPage]_vars

\* The Registration Engine with its Code Generator, without the pages.
NextEngine ==
    \/ \E t \in Trainers, draws \in Draws : Register(t, draws)
    \/ \E id \in 1..MaxRegistrations, draws \in Draws : Cancel(id, draws)

SpecEngine == InitSpecMT /\ [][NextEngine]_vars

\* The engine next to one load of the detail page with its count corrections.
\* The candidate draws are enumerated only when the operation generates a code
\* (a Register that confirms, a Cancel that promotes).
NoDraws == [k \in 1..MaxAttempts |-> 1]
DrawsWhen(generates) == IF generates THEN Draws ELSE {NoDraws}

Promotes(id) ==
    /\ registrations[id].status = "confirmed"
    /\ RegsOf(registrations[id].trainerId, "waitlist") # {}

NextSlots ==
    \/ \E t \in Trainers : \E draws \in DrawsWhen(~slotIsFull(trainers[t])) :
          Register(t, draws)
    \/ \E id \in 1..Len(registrations) : \E draws \in DrawsWhen(Promotes(id)) :
          Cancel(id, draws)
    \/ \E c \in Viewers : fetchEventAndRegistrations_getDoc(c)
    \/ \E c \in Viewers : fetchEventAndRegistrations_getDocs(c)
    \/ \E f \in fixes : autoFix_updateDoc(f)

SpecSlots == InitSpecMT /\ [][NextSlots]_vars

\* A trainer's detail page with its Remove buttons, next to the participants
\* who register for and cancel on the bounded slot.
NextRemove ==
    \/ \E draws \in DrawsWhen(~slotIsFull(trainers["t1"])) : Register("t1", draws)
    \/ \E id \in 1..Len(registrations) : \E draws \in DrawsWhen(Promotes(id)) :
          Cancel(id, draws)
    \/ \E c \in Viewers : fetchEventAndRegistrations_getDoc(c)
    \/ \E c \in Viewers : fetchEventAndRegistrations_getDocs(c)
    \/ \E f \in fixes : autoFix_updateDoc(f)
    \/ \E c \in Viewers, u \in Users, id \in 1..Len(registrations) :
          \E draws \in DrawsWhen(Promotes(id)) :
              handleRemoveUser_cancelRegistration(c, u, id, draws)
    \/ \E c \in Viewers : handleRemoveUser_getDoc(c)
    \/ \E c \in Viewers : handleRemoveUser_getDocs(c)

SpecRemove == InitSpecMT /\ [][NextRemove]_vars

\* Two users validating the attendance of the trainers of one event.
NextAttendance ==
    \/ \E c \in Clients : loadTrainersAndValidations(c)
    \/ \E c \in Clients, t \in Trainers : handleToggleTrainerValidation_updateDoc(c, t)
    \/ \E c \in Clients : handleToggleTrainerValidation_setState(c)
    \/ \E c \in Clients : handleMarkAllValidated_updateDoc(c)
    \/ \E c \in Clients : handleMarkAllValidated_setState(c)
    \/ \E c \in Clients : onClose(c)

SpecAttendance == InitSpecMT /\ [][NextAttendance]_vars

\* The check-in verification next to the engine working on the bounded slot.
NextCheckin ==
    \/ \E draws \in Draws : Register("t1", draws)
    \/ \E id \in 1..MaxRegistrations, draws \in Draws : Cancel(id, draws)
    \/ \E payload \in Payloads : verifyCheckin(payload)

SpecCheckin == InitSpecMT /\ [][NextCheckin]_vars

\* The detail pages rendered for every kind of user, on an event that has
\* participants in both document shapes.
LegacyParticipants ==
    LET P(k) == [id |-> k, name |-> 1, email |-> k, phone |-> 1]
    IN  { [attendees |-> <<>>, waitlist |-> <<>>],
          [attendees |-> <<P(1)>>, waitlist |-> <<>>],
          [attendees |-> <<P(1)>>, waitlist |-> <<P(2)>>] }

InitSpecView ==
    /\ InitView
    /\ InitAttendance
    /\ trainers = [t \in Trainers |->
                     [capacity |-> IF t = "t1" THEN 1 ELSE Unlimited,
                      currentCount |-> 0]]
    /\ registrations \in StoredRegistrations
    /\ page = [c \in Viewers |-> NoPage]
    /\ fixes = {}
    /\ eventExists = TRUE
    /\ codes = [i \in 1..Len(registrations) |-> NoIssued]
    /\ checkin = NoCheckin
    /\ \E lp \in LegacyParticipants : attendees = lp.attendees /\ waitlist = lp.waitlist
    /\ capacity = Num(1)
    /\ event = [c \in Clients |-> NoEvent]
    /\ pc = [c \in Clients |-> "idle"]
    /\ job = [c \in Clients |-> NoJob]
    /\ toast = [c \in Clients |-> "none"]
    /\ nextId = Len(attendees) + Len(waitlist) + 1
    /\ cancelled = {}

NextView ==
    \/ \E u \in Users : joinEvent(u)
    \/ \E u \in Users : renderEventDetail(u)
    \/ \E u \in Users : renderLegacyEventDetail(u)

SpecView == InitSpecView /\ [][NextView]_vars

\* ------------------------------------------------------------------ properties (Spec)

\* The running cancellation j removed a confirmed attendee from the store.
Freed(j) == j.kind = "cancel" /\ ~j.inWaitlist /\ j.att \in Range(j.preAtt)

\* The attendee cancellation j targets was in neither array when j wrote.
AlreadyCancelled(j) ==
    j.kind = "cancel" /\ j.att \notin Range(j.preAtt) /\ j.att \notin Range(j.preWait)

\* Client c's cancellation performs its last store write in this step.
CancelCompletes(c) == pc[c] \in {"idle", "cancel_promote"} /\ pc'[c] = "cancel_refresh"

\* Client c's cancellation performs a store write in this step.
CancelWrites(c) ==
    \/ pc[c] = "idle" /\ pc'[c] \in {"cancel_promote", "cancel_refresh"}
    \/ pc[c] = "cancel_promote" /\ pc'[c] = "cancel_refresh"

AllIdle == \A c \in Clients : pc[c] = "idle"

\* C1: the number of confirmed registrations (attendees.length) never exceeds
\* the capacity of a bounded slot (and, being a length, is never negative).
C1_CountWithinCapacity ==
    capacity # NULL => Len(attendees) <= capacity.value

\* C3: when the cancellation of a confirmed registration has done its writes and
\* the waitlist was non-empty when the spot was freed, the registration that was
\* first on the waitlist is confirmed, the waitlist is the former waitlist without
\* its head (every other position one lower) and the count is what it was.
C3_CancelConfirmedPromotesHead ==
    [][\A c \in Clients :
          (CancelCompletes(c) /\ Freed(job'[c]) /\ job'[c].preWait # <<>>) =>
              /\ Head(job'[c].preWait) \in Range(attendees')
              /\ waitlist' = Tail(job'[c].preWait)
              /\ Len(attendees') = Len(job'[c].preAtt)]_vars

\* C4: the waitlist holds no registration twice, its positions are exactly 1..N,
\* and it is ordered by request time: ids grow in the order the store received
\* the bookings, and an earlier booking has a smaller position.
C4_WaitlistPositionsContiguous ==
    /\ \A i, j \in 1..Len(waitlist) : i < j => waitlist[i].id < waitlist[j].id
    /\ {Pos(waitlist, a) : a \in Range(waitlist)} = 1..Len(waitlist)
    /\ Cardinality({a.id : a \in Range(waitlist)}) = Len(waitlist)

C4_Witness ==
    AllIdle /\ Len(waitlist) >= 2 /\ cancelled # {}

\* C5: a cancellation of a registration that is already cancelled writes nothing
\* (same confirmed list, same waitlist, no further promotion), and a cancel
\* request for a registration that has been cancelled is not answered with an
\* error.
C5_CancelIdempotent ==
    [][/\ \A c \in Clients :
             (CancelWrites(c) /\ AlreadyCancelled(job'[c])) =>
                 (attendees' = attendees /\ waitlist' = waitlist)
       /\ \A c \in Clients, form \in CancelForms :
             handleCancelBooking_notFound(c, form) =>
                 ~\E a \in cancelled : a.email = form.email /\ a.phone = form.phone]_vars

\* C6: a registration that has been cancelled is never again confirmed or
\* waitlisted.
C6_CancelledIsTerminal ==
    \A a \in cancelled : a \notin Range(attendees) /\ a \notin Range(waitlist)

\* C7: the promotion step of a cancellation that freed a confirmed spot, taken
\* while a registration is waiting, moves exactly one registration from the
\* waitlist to the confirmed list, so that k freed spots promote k distinct
\* registrations.
C7_OnePromotionPerFreedSpot ==
    [][\A c \in Clients :
          (pc[c] = "cancel_promote" /\ pc'[c] = "cancel_refresh"
             /\ Freed(job[c]) /\ waitlist # <<>>) =>
              /\ Len(waitlist') + 1 = Len(waitlist)
              /\ Len(attendees') = Len(attendees) + 1]_vars

\* C8: a booking written while the slot is full is not answered with an error,
\* is appended to the waitlist at position (current maximum + 1) and leaves the
\* confirmed list unchanged.
C8_FullSlotRegisterWaitlists ==
    [][\A c \in Clients :
          (pc[c] = "idle" /\ pc'[c] = "book_refresh"
             /\ isFull(capacity, Len(attendees))) =>
              /\ toast'[c] # "error"
              /\ attendees' = attendees
              /\ waitlist' = Append(waitlist, job'[c].att)
              /\ Pos(waitlist', job'[c].att) = Len(waitlist) + 1]_vars

\* C9: on an event of unlimited capacity nobody is ever waitlisted, in the store
\* or in any client's view, and every booking is confirmed: after n bookings and
\* m cancellations the confirmed list has n - m entries.
C9_UnboundedNeverFull ==
    capacity = NULL =>
        /\ waitlist = <<>>
        /\ \A c \in Clients :
              /\ event[c].waitlist = <<>>
              /\ job[c].kind = "book" => ~job[c].inWaitlist
        /\ Len(attendees) + Cardinality(cancelled) + 1 = nextId

C9_Witness ==
    capacity = NULL /\ Len(attendees) = MaxBookings /\ cancelled = {}

\* C10: cancelling a registration that is on the waitlist removes it in one
\* store write, moves every registration behind it up by exactly one position,
\* keeps the positions before it, starts no promotion and leaves the confirmed
\* list (and so the count) unchanged.
C10_WaitlistCancelShiftsPositions ==
    [][\A c \in Clients :
          (pc[c] = "idle" /\ pc'[c] \in {"cancel_promote", "cancel_refresh"}
             /\ job'[c].att \in Range(waitlist)) =>
              LET p == Pos(waitlist, job'[c].att)
              IN  /\ pc'[c] = "cancel_refresh"
                  /\ attendees' = attendees
                  /\ Len(waitlist') + 1 = Len(waitlist)
                  /\ job'[c].att \notin Range(waitlist')
                  /\ \A i \in 1..Len(waitlist) :
                        /\ i < p => waitlist'[i] = waitlist[i]
                        /\ i > p => waitlist'[i - 1] = waitlist[i]]_vars

C10_Witness ==
    \E c \in Clients :
        /\ pc[c] = "cancel_refresh"
        /\ job[c].kind = "cancel" /\ job[c].inWaitlist
        /\ job[c].att \in Range(job[c].preWait)
        /\ Pos(job[c].preWait, job[c].att) < Len(job[c].preWait)
        /\ job[c].preAtt # <<>>
        /\ attendees = job[c].preAtt

\* C11: promotion is first in, first out: the registration a promotion step
\* moves from the waitlist to the confirmed list was requested before every
\* registration that is still on the waitlist after the step, so no later
\* request is confirmed while an earlier one of the same slot is waiting.
C11_PromotionIsFIFO ==
    [][\A c \in Clients :
          (pc[c] = "cancel_promote" /\ pc'[c] = "cancel_refresh") =>
              \A b \in Range(attendees') \ Range(attendees) :
                  \A a \in Range(waitlist') : b.id < a.id]_vars

C11_Witness ==
    \E c \in Clients :
        /\ pc[c] = "cancel_refresh"
        /\ job[c].first # NoAtt
        /\ job[c].first \in Range(attendees)
        /\ job[c].first \notin Range(job[c].preAtt)
        /\ waitlist # <<>>

\* C12: no state is observable in which a cancellation has freed a confirmed
\* spot, a registration is waiting and nobody has been promoted: the removal
\* and the promotion it triggers are applied together or not at all.
C12_NoPartialWrite ==
    \A c \in Clients :
        (pc[c] = "cancel_promote" /\ Freed(job[c])) =>
            (waitlist = <<>> \/ job[c].first \in Range(attendees))

\* C18: a cancel request whose email and phone match no registration of the
\* event is answered with the not-found error and writes nothing: the confirmed
\* list and the waitlist are unchanged and no further write of the request is
\* pending.
C18_NotFoundNoWrite ==
    [][\A c \in Clients, form \in CancelForms :
          (/\ form.email # Empty /\ form.phone # Empty
           /\ Matches([attendees |-> attendees, waitlist |-> waitlist], form) = <<>>
           /\ (handleCancelBooking_notFound(c, form)
                 \/ handleCancelBooking_updateDoc(c, form))) =>
              /\ toast'[c] = "error"
              /\ pc'[c] = "idle"
              /\ attendees' = attendees
              /\ waitlist' = waitlist]_vars

\* C19: a booking or a cancellation that commits after another operation has
\* changed the slot is decided on the state of the store at the commit, never
\* on the state read before: the booking is waitlisted exactly when the slot is
\* full at the commit, the cancellation finds its registration in the array
\* that holds it at the commit, and the promotion moves the registration that
\* is first on the waitlist at the commit.
C19_CommitDecidesOnFreshState ==
    [][\A c \in Clients :
          /\ (pc[c] = "idle" /\ pc'[c] = "book_refresh") =>
                 job'[c].inWaitlist = isFull(capacity, Len(attendees))
          /\ (pc[c] = "idle" /\ pc'[c] \in {"cancel_promote", "cancel_refresh"}) =>
                 /\ job'[c].inWaitlist = (job'[c].att \in Range(waitlist))
                 /\ ~job'[c].inWaitlist => job'[c].att \in Range(attendees)
                 /\ (pc'[c] = "cancel_promote") = (~job'[c].inWaitlist /\ waitlist # <<>>)
          /\ (pc[c] = "cancel_promote" /\ pc'[c] = "cancel_refresh") =>
                 (waitlist # <<>> /\ job[c].first = Head(waitlist))]_vars

\* ------------------------------------------------------------------ properties (SpecMT)

\* C2: for every trainer slot the stored currentCount equals the number of
\* registrations of that slot whose status is confirmed.
C2_CountEqualsConfirmed ==
    \A t \in Trainers : trainers[t].currentCount = Cardinality(RegsOf(t, "confirmed"))

\* ------------------------------------------------------------------ properties (SpecPage)

\* The page has loaded the event and every count correction is applied.
AuditDone == eventExists /\ fixes = {} /\ \A c \in Viewers : page[c].pc = "loaded"

\* C13: when the page load and its count corrections are complete (and nothing
\* else has written), every slot's stored currentCount is the number of its
\* confirmed registrations, whatever value was stored before; the validation
\* changes no registration, and the page shows the registrations it read
\* without waiting for a correction.
C13_AuditRepairsCount ==
    /\ [](AuditDone =>
            \A t \in Trainers :
                trainers[t].currentCount = Cardinality(RegsOf(t, "confirmed")))
    /\ [][/\ (\/ \E c \in Viewers : fetchEventAndRegistrations_getDoc(c)
              \/ \E c \in Viewers : fetchEventAndRegistrations_getDocs(c)
              \/ \E f \in fixes : autoFix_updateDoc(f)) => registrations' = registrations
          /\ \A c \in Viewers :
                (page[c].pc = "event_read" /\ page'[c].pc # "event_read") =>
                    (page'[c].pc = "loaded" /\ page'[c].registrations = ActiveRegistrations)]_vars

C13_Witness ==
    /\ AuditDone
    /\ \E c \in Viewers : page[c].fixed = Trainers
    /\ \E t \in Trainers : RegsOf(t, "confirmed") # {}
    /\ \E t \in Trainers : trainers[t].currentCount = 0

\* C14: the event is removed only after its registrations are cancelled, so
\* once the event document is gone no registration of it is confirmed or
\* waitlisted, during the deletion and after it.
C14_DeleteLeavesNoActiveRegistration ==
    ~eventExists => ActiveRegistrations = {}

\* C15: a registration document, once created, exists in every later state;
\* cancelling changes its status and never deletes it.
C15_RegistrationNeverDeleted ==
    \A i \in 1..Len(registrations) : registrations[i].status # "absent"

\* ------------------------------------------------------------------ properties (SpecEngine)

\* C16: every confirmed registration, registered as confirmed or promoted from
\* the waitlist, has a non-empty uniqueCode, and no two registrations that are
\* confirmed at the same time, on any slot, have the same uniqueCode.
C16_ConfirmedCodesUnique ==
    \A i \in 1..Len(registrations) :
        registrations[i].status = "confirmed" =>
            /\ codes[i].uniqueCode # NoCode
            /\ \A j \in 1..Len(registrations) :
                  (j # i /\ registrations[j].status = "confirmed") =>
                      codes[j].uniqueCode # codes[i].uniqueCode

C16_Witness ==
    \E i, j, k \in 1..Len(registrations) :
        /\ registrations[i].status = "confirmed" /\ codes[i].by = "promoter"
        /\ registrations[j].status = "confirmed" /\ j # i
        /\ registrations[j].trainerId # registrations[i].trainerId
        /\ registrations[k].status = "cancelled"
        /\ codes[k].uniqueCode = codes[i].uniqueCode

\* ------------------------------------------------------------------ properties (SpecCheckin)

\* C17: a verification accepts a payload only if it decodes to a stored
\* registration that is confirmed and carries the payload's code; the payload of
\* a registration that has been cancelled is answered NotFound, and a payload
\* that matches no stored registration or one that is not confirmed is rejected.
C17_CheckinRejectsCancelledAndForged ==
    [][checkin' # checkin =>
          LET p == decode(checkin'.payload)
              stored == p.id \in 1..Len(registrations)
          IN  /\ checkin'.result \in {"Registration", "NotFound", "Forged"}
              /\ checkin'.result = "Registration" =>
                    /\ stored
                    /\ registrations[p.id].status = "confirmed"
                    /\ codes[p.id].uniqueCode = p.code /\ p.code # NoCode
              /\ (stored /\ registrations[p.id].status = "cancelled"
                         /\ codes[p.id].uniqueCode = p.code /\ p.code # NoCode) =>
                    checkin'.result = "NotFound"
              /\ (~stored \/ p.code = NoCode) => checkin'.result = "Forged"]_vars

C17_Witness ==
    \E id \in 1..Len(registrations) :
        /\ registrations[id].status = "cancelled"
        /\ codes[id].uniqueCode # NoCode
        /\ checkin.payload = encode(id, codes[id].uniqueCode)
        /\ checkin.result = "NotFound"
        /\ \E j \in 1..Len(registrations) :
              /\ registrations[j].status = "confirmed"
              /\ codes[j].uniqueCode = codes[id].uniqueCode

\* ------------------------------------------------------------------ properties (SpecView)

\* C20: a viewer whose role is neither trainer nor admin (nobody signed in, an
\* assistant) is shown at most the names (and waitlist positions) of the
\* participants: no row rendered for such a viewer shows email, phone or
\* check-in code.
C20_ContactsOnlyForTrainers ==
    role(view.viewer) \notin {"trainer", "admin"} =>
        \A row \in view.rows : row.fields \cap {"email", "phone", "uniqueCode"} = {}

C20_Witness ==
    /\ view.viewer = "a1"
    /\ view.page = "trainers"
    /\ \E row \in view.rows : row.status = "confirmed" /\ row.fields = {"name"}
    /\ \E row \in view.rows : row.status = "waitlist"
    /\ "ad1" \in eventTrainerIds

\* ------------------------------------------------------------------ properties (slots)

\* C21: the count an audit repair writes is the number of confirmed
\* registrations the slot has at the moment the write is applied, so a repair
\* never replaces a correct count by a stale one.
C21_AuditWritesCountAtCommit ==
    [][\A f \in fixes :
          (autoFix_updateDoc(f) /\ eventExists) =>
              trainers'[f.trainerId].currentCount =
                  Cardinality(RegsOf(f.trainerId, "confirmed"))]_vars

\* What the store holds for slot t: its capacity and count, and the status and
\* waitlist position of each of its registrations.
SlotState(t) ==
    <<trainers[t],
      [i \in {j \in 1..Len(registrations) : registrations[j].trainerId = t} |->
          <<registrations[i].status, registrations[i].position>>]>>

OtherSlotsUnchanged(t) == \A u \in Trainers \ {t} : SlotState(u)' = SlotState(u)

\* C22: slots are independent: a step that creates a registration in a slot
\* (Register), cancels one of its registrations (Cancel or Remove, with the
\* promotion) or applies an audit repair to it leaves the capacity, the count,
\* the confirmed registrations and the waitlist of every other slot unchanged;
\* no step changes two slots.
C22_SlotsIndependent ==
    [][/\ Len(registrations') > Len(registrations) =>
             OtherSlotsUnchanged(registrations'[Len(registrations')].trainerId)
       /\ \A id \in 1..Len(registrations) :
             (registrations[id].status # "cancelled" /\ registrations'[id].status = "cancelled")
                 => OtherSlotsUnchanged(registrations[id].trainerId)
       /\ \A f \in fixes \ fixes' : OtherSlotsUnchanged(f.trainerId)
       /\ \A t \in Trainers :
             SlotState(t)' # SlotState(t) => OtherSlotsUnchanged(t)]_vars

\* A repair of slot t1 has been applied, after a promotion in t1, while slot t2
\* has a confirmed registration and a count that is not zero.
C22_Witness ==
    /\ \E c \in Viewers : "t1" \in page[c].fixed
    /\ \E i \in 1..Len(codes) : codes[i].by = "promoter"
    /\ RegsOf("t2", "confirmed") # {}
    /\ trainers["t2"].currentCount > 0

\* ------------------------------------------------------------------ properties (edit)

\* C23: saving an edit of an existing event (title, date, duration, type,
\* capacity) leaves its confirmed registrations and its waitlist exactly as
\* they were.
C23_EditKeepsRegistrations ==
    [][\A form \in EditForms :
          handleSubmit(form) => attendees' = attendees /\ waitlist' = waitlist]_vars

\* ------------------------------------------------------------------ properties (engine)

\* C24: a registration has a waitlist position if and only if its status is
\* waitlist; it has a uniqueCode only if it is or has been confirmed (a code
\* appears only in a step that leaves the registration confirmed, and a
\* confirmed registration has one); a promotion removes the position, sets the
\* status confirmed and assigns the code in one step.
C24_PositionAndCodeFollowStatus ==
    /\ [](\A i \in 1..Len(registrations) :
            /\ registrations[i].position # 0 <=> registrations[i].status = "waitlist"
            /\ registrations[i].status = "waitlist" => codes[i].uniqueCode = NoCode
            /\ registrations[i].status = "confirmed" => codes[i].uniqueCode # NoCode)
    /\ [][\A i \in 1..Len(registrations') :
            /\ ((i > Len(registrations) \/ codes[i].uniqueCode = NoCode)
                  /\ codes'[i].uniqueCode # NoCode)
                 => registrations'[i].status = "confirmed"
            /\ (i <= Len(registrations) /\ registrations[i].status = "waitlist"
                  /\ registrations'[i].status = "confirmed")
                 => /\ registrations'[i].position = 0
                    /\ codes'[i].uniqueCode # NoCode]_vars

\* A promoted registration is confirmed with a code, another registration
\* waits, and a registration cancelled while waiting has no code.
C24_Witness ==
    /\ \E i \in 1..Len(registrations) :
          registrations[i].status = "confirmed" /\ codes[i].by = "promoter"
    /\ \E i \in 1..Len(registrations) : registrations[i].status = "waitlist"

C26_GeneratorBoundedAndCollisionFree ==
    /\ [](LET existing == activeCodes(registrations, 0)
          IN  \A draws \in Draws :
                 LET code == generate(existing, draws)
                 IN  /\ code \notin existing
                     /\ code = NoCode <=> \A k \in 1..MaxAttempts : draws[k] \in existing
                     /\ code # NoCode =>
                           \E k \in 1..MaxAttempts :
                               /\ code = draws[k]
                               /\ \A m \in 1..(k - 1) : draws[m] \in existing)
    /\ [][/\ \A t \in Trainers : \A draws \in [1..MaxAttempts -> activeCodes(registrations, 0)] :
                (~slotIsFull(trainers[t]) /\ Register(t, draws))
                    => UNCHANGED <<registrations, trainers, codes>>
          /\ \A id \in 1..Len(registrations) :
                \A draws \in [1..MaxAttempts -> activeCodes(registrations, id)] :
                    (Promotes(id) /\ Cancel(id, draws))
                        => UNCHANGED <<registrations, trainers, codes>>]_vars

\* Every code of the code space is active while the unbounded slot takes
\* registrations: every attempt of a Register collides.
C26_Witness ==
    /\ activeCodes(registrations, 0) = CodeSpace
    /\ Len(registrations) < MaxRegistrations
    /\ ~slotIsFull(trainers["t2"])

\* ------------------------------------------------------------------ properties (booking form)

\* C27: a booking submitted with the name, the email or the phone empty creates
\* no registration and changes nothing in the store: capacity, attendees and
\* waitlist stay as they are, no booking id is used, and no stored booking
\* ever has an empty field.
C27_IncompleteFormWritesNothing ==
    /\ [](\A i \in 1..Len(attendees) :
             attendees[i].name # Empty /\ attendees[i].email # Empty
                /\ attendees[i].phone # Empty)
    /\ [](\A i \in 1..Len(waitlist) :
             waitlist[i].name # Empty /\ waitlist[i].email # Empty
                /\ waitlist[i].phone # Empty)
    /\ [][\A c \in Clients, form \in BookingForms(nextId) :
             ((form.name = Empty \/ form.email = Empty \/ form.phone = Empty)
                /\ (handleBooking_invalid(c, form) \/ handleBooking_updateDoc(c, form)))
                 => UNCHANGED <<capacity, attendees, waitlist, nextId, pc, job, event>>]_vars

\* An incomplete form has been answered with the error toast on an event that
\* has a confirmed booking and a waitlisted one.
C27_Witness ==
    /\ \E c \in Clients : toast[c] = "error" /\ pc[c] = "idle"
    /\ Len(attendees) > 0
    /\ Len(waitlist) > 0

\* ------------------------------------------------------------------ properties (legacy arrays)

\* C28: in the legacy event document, whatever the interleaving of the clients'
\* bookings and cancellations, no booking id is in attendees and in waitlist at
\* once, and no booking id appears twice in attendees or twice in waitlist.
C28_NoIdTwice ==
    /\ {attendees[i].id : i \in 1..Len(attendees)}
          \cap {waitlist[i].id : i \in 1..Len(waitlist)} = {}
    /\ \A i, j \in 1..Len(attendees) : attendees[i].id = attendees[j].id => i = j
    /\ \A i, j \in 1..Len(waitlist) : waitlist[i].id = waitlist[j].id => i = j

\* Two cancellations that freed two spots have both promoted the same
\* waitlisted booking, which is now an attendee.
C28_Witness ==
    /\ pc["c1"] = "cancel_refresh" /\ pc["c2"] = "cancel_refresh"
    /\ job["c1"].first # NoAtt
    /\ job["c1"].first = job["c2"].first
    /\ job["c1"].att # job["c2"].att
    /\ job["c1"].first \in Range(attendees)

\* ------------------------------------------------------------------ properties (attendance)

\* C29: a validation that is stored for one trainer is not lost through a
\* client's action on a different trainer: a toggle of trainer t leaves every
\* other trainer that had a stored validation with a stored validation, and
\* so does Mark All.
C29_ValidationNotLost ==
    [][/\ \A c \in Clients, t \in Trainers :
             handleToggleTrainerValidation_updateDoc(c, t) =>
                 ValidationIds(attendanceValidations) \ {t}
                     \subseteq ValidationIds(attendanceValidations')
       /\ \A c \in Clients :
             handleMarkAllValidated_updateDoc(c) =>
                 ValidationIds(attendanceValidations)
                     \subseteq ValidationIds(attendanceValidations')]_vars

\* C30: the stored attendanceValidations has at most one entry per trainerId,
\* and whenever no handler of a client is running the client's
\* validatedTrainers is the set of the trainerIds of its validations.
C30_OneValidationPerTrainer ==
    /\ \A i, j \in 1..Len(attendanceValidations) :
          attendanceValidations[i].trainerId = attendanceValidations[j].trainerId => i = j
    /\ \A c \in Clients :
          screen[c].pc = "ready" =>
              screen[c].validatedTrainers = ValidationIds(screen[c].validations)

====
